---- MODULE Spec2Model ----
(***************************************************************************)
(* A model of lib/XmlBuilder.js: the XmlBuilder class, which serialises a  *)
(* tree of JSON nodes into an XML document string.                         *)
(*                                                                         *)
(* JavaScript values are tagged records; JavaScript strings are sequences  *)
(* of one-character strings, so that replacement, concatenation and         *)
(* indexing are computed character by character as the code computes them. *)
(***************************************************************************)
EXTENDS Integers, Sequences, FiniteSets, TLC

VARIABLES
    _i,         \* this._i: the node visit counter of the XmlBuilder instance
    _c,         \* this._c: the character read by the last flatten probe
    probes,     \* ghost: pre-increment counts at which the probe fired, last build
    pc,         \* "idle" | "returned": whether a call's outcome is held by the caller
    prior,      \* ghost: this._i when the build call whose outcome is held began
    node,       \* the argument of the build call whose outcome is held
    result,     \* the outcome of that call: a returned string or a thrown Error
    value,      \* the argument of the latest _escapeString call
    escaped,    \* the value returned by the latest _escapeString call
    original,   \* the argument of the first _escapeString call of the chain
    passes      \* how many times _escapeString was applied in the chain

vars == <<_i, _c, probes, pc, prior, node, result, value, escaped, original, passes>>

(***************************************************************************)
(* Bounds of the model.                                                    *)
(***************************************************************************)
MaxStrLen == 4      \* longest string drawn over Alphabet
MaxNodes == 3       \* most nodes in a tree of the structural family
MaxAttrs == 2       \* most attributes of an element of the attribute family
MaxKids == 2        \* most text children of an element of the text family
MaxPasses == 2      \* most chained applications of _escapeString
MaxPeriod == 3      \* largest alternative flatten period compared

(***************************************************************************)
(* JavaScript values.                                                      *)
(***************************************************************************)
Undefined == [type |-> "undefined"]
Null == [type |-> "null"]
Str(s) == [type |-> "string", s |-> s]
Num(n) == [type |-> "number", n |-> n]
Bool(b) == [type |-> "boolean", b |-> b]
Arr(items) == [type |-> "array", items |-> items]
\* A plain object: its own enumerable properties in iteration order, each key
\* occurring once.
Map(entries) == [type |-> "map", entries |-> entries]
\* The object literal {name, attributes, children}, a property given as
\* Undefined being left out.
Obj(name, attributes, children) ==
    Map(SelectSeq(<<[name |-> <<"n", "a", "m", "e">>, value |-> name],
                    [name |-> <<"a", "t", "t", "r", "i", "b", "u", "t", "e", "s">>,
                     value |-> attributes],
                    [name |-> <<"c", "h", "i", "l", "d", "r", "e", "n">>,
                     value |-> children]>>,
                  LAMBDA e : e.value.type # "undefined"))

Digits == <<"0", "1", "2", "3", "4", "5", "6", "7", "8", "9">>

RECURSIVE NatToString(_)
NatToString(n) ==
    IF n < 10 THEN <<Digits[n + 1]>>
    ELSE NatToString(n \div 10) \o <<Digits[(n % 10) + 1]>>

\* Number.prototype.toString for an integer.
NumToString(n) == IF n < 0 THEN <<"-">> \o NatToString(-n) ELSE NatToString(n)

\* Object.prototype.toString of a plain object.
ObjectObject ==
    <<"[", "o", "b", "j", "e", "c", "t", " ", "O", "b", "j", "e", "c", "t", "]">>

\* The outcome of evaluating an expression: its value, or the TypeError the
\* runtime throws.
Normal(v) == [kind |-> "normal", value |-> v]
TypeError(message) == [kind |-> "throw", error |-> "TypeError", message |-> message]

\* The texts of the two TypeErrors: a call of a property that is no function,
\* and a conversion to a string of an object that has no callable toString.
NotAFunctionMessage == "value.toString is not a function"
NoPrimitiveMessage == "Cannot convert object to primitive value"

\* The object has an own property toString. No value here is a function, so
\* the property hides Object.prototype.toString with something not callable.
OwnsToString(v) ==
    v.type = "map" /\ \E k \in 1..Len(v.entries) :
                          v.entries[k].name = <<"t", "o", "S", "t", "r", "i", "n", "g">>

\* ToString as applied by `${...}`, by string += value and by Array join to
\* each item. An array joins the string forms of its items with commas, a nil
\* item giving the empty string; an object without a callable toString throws.
RECURSIVE JsToString(_)
RECURSIVE JoinItems(_)
JoinItems(items) ==
    IF items = <<>> THEN Normal(<<>>)
    ELSE LET head == IF Head(items).type \in {"undefined", "null"}
                     THEN Normal(<<>>) ELSE JsToString(Head(items))
             tail == JoinItems(Tail(items))
         IN  IF head.kind = "throw" THEN head
             ELSE IF Len(items) = 1 THEN head
             ELSE IF tail.kind = "throw" THEN tail
             ELSE Normal(head.value \o <<",">> \o tail.value)

JsToString(v) ==
    CASE v.type = "undefined" ->
            Normal(<<"u", "n", "d", "e", "f", "i", "n", "e", "d">>)
      [] v.type = "null" -> Normal(<<"n", "u", "l", "l">>)
      [] v.type = "string" -> Normal(v.s)
      [] v.type = "number" -> Normal(NumToString(v.n))
      [] v.type = "boolean" ->
            Normal(IF v.b THEN <<"t", "r", "u", "e">> ELSE <<"f", "a", "l", "s", "e">>)
      [] v.type = "array" -> JoinItems(v.items)
      [] v.type = "map" ->
            IF OwnsToString(v) THEN TypeError(NoPrimitiveMessage)
            ELSE Normal(ObjectObject)

\* value.toString() of a non-nil value: the call throws when the object's own
\* toString is not a function.
ToStringMethod(v) ==
    IF OwnsToString(v) THEN TypeError(NotAFunctionMessage) ELSE JsToString(v)

\* _.isNil
isNil(v) == v.type \in {"undefined", "null"}

\* _.isObject
isObject(v) == v.type \in {"array", "map"}

\* The truth value of !v.
Falsy(v) ==
    CASE v.type \in {"undefined", "null"} -> TRUE
      [] v.type = "string" -> v.s = <<>>
      [] v.type = "number" -> v.n = 0
      [] v.type = "boolean" -> ~v.b
      [] OTHER -> FALSE

(***************************************************************************)
(* _escapeString                                                           *)
(***************************************************************************)
AmpEntity == <<"&", "a", "m", "p", ";">>
QuotEntity == <<"&", "q", "u", "o", "t", ";">>
AposEntity == <<"&", "a", "p", "o", "s", ";">>
LtEntity == <<"&", "l", "t", ";">>
GtEntity == <<"&", "g", "t", ";">>

\* s.replace(/ch/g, by): every occurrence of the character ch, left to right.
RECURSIVE ReplaceAll(_, _, _)
ReplaceAll(s, ch, by) ==
    IF s = <<>> THEN <<>>
    ELSE (IF Head(s) = ch THEN by ELSE <<Head(s)>>) \o ReplaceAll(Tail(s), ch, by)

\* The chain of the five replace calls, & first.
EscapeAmpLast(s) ==
    ReplaceAll(ReplaceAll(ReplaceAll(ReplaceAll(ReplaceAll(
        s, "\"", QuotEntity), "'", AposEntity), "<", LtEntity), ">", GtEntity),
        "&", AmpEntity)

EscapeNoAmp(s) ==
    ReplaceAll(ReplaceAll(ReplaceAll(ReplaceAll(
        s, "\"", QuotEntity), "'", AposEntity), "<", LtEntity), ">", GtEntity)

EscapeNoGt(s) ==
    ReplaceAll(ReplaceAll(ReplaceAll(ReplaceAll(
        s, "&", AmpEntity), "\"", QuotEntity), "'", AposEntity), "<", LtEntity)

EscapeChain(s) ==
    ReplaceAll(ReplaceAll(ReplaceAll(ReplaceAll(ReplaceAll(
        s, "&", AmpEntity), "\"", QuotEntity), "'", AposEntity), "<", LtEntity),
        ">", GtEntity)

\* The value returned, or the TypeError of value.toString().
_escapeString(v) ==
    IF isNil(v) THEN Normal(v)
    ELSE IF ToStringMethod(v).kind = "throw" THEN ToStringMethod(v)
    ELSE Normal(Str(EscapeChain(ToStringMethod(v).value)))

(***************************************************************************)
(* _build                                                                  *)
(***************************************************************************)
Decl ==
    <<"<", "?", "x", "m", "l", " ", "v", "e", "r", "s", "i", "o", "n", "=",
      "\"", "1", ".", "0", "\"", " ", "e", "n", "c", "o", "d", "i", "n", "g",
      "=", "\"", "U", "T", "F", "-", "8", "\"", " ", "s", "t", "a", "n", "d",
      "a", "l", "o", "n", "e", "=", "\"", "y", "e", "s", "\"", "?", ">">>

FlattenPeriod == 100000

MissingNameMessageSpec == "XML node missing name"

MissingNameMessage == "XML node does not have name"

\* value[key]: the own property of a plain object, undefined when it has no
\* such property; an array, a string, a number or a boolean has none of the
\* properties read here (name, attributes, children).
Prop(v, key) ==
    IF v.type = "map" /\ \E k \in 1..Len(v.entries) : v.entries[k].name = key
    THEN v.entries[CHOOSE k \in 1..Len(v.entries) : v.entries[k].name = key].value
    ELSE Undefined

\* node.name, node.attributes, node.children
NameOf(n) == Prop(n, <<"n", "a", "m", "e">>)
AttributesOf(n) == Prop(n, <<"a", "t", "t", "r", "i", "b", "u", "t", "e", "s">>)
ChildrenOf(n) == Prop(n, <<"c", "h", "i", "l", "d", "r", "e", "n">>)

\* xml[0]
CharAt0(xml) == IF xml = <<>> THEN Undefined ELSE Str(<<xml[1]>>)

\* if (++this._i % period === 0): the test made on the incremented count.
ProbePreIncrement(period, xml, this) ==
    [i |-> this.i + 1,
     c |-> IF (this.i + 1) % period = 0 THEN CharAt0(xml) ELSE this.c,
     probes |-> IF (this.i + 1) % period = 0
                THEN Append(this.probes, this.i) ELSE this.probes]

\* if (this._i++ % period === 0) this._c = xml[0];
ProbeWith(period, xml, this) ==
    [i |-> this.i + 1,
     c |-> IF this.i % period = 0 THEN CharAt0(xml) ELSE this.c,
     probes |-> IF this.i % period = 0
                THEN Append(this.probes, this.i) ELSE this.probes]

\* The own enumerable properties of a value, in iteration order: those of a
\* plain object, the index keys of an array or of a string; nil, numbers and
\* booleans have none.
OwnEntries(v) ==
    CASE v.type = "map" -> v.entries
      [] v.type = "array" ->
            [k \in 1..Len(v.items) |->
                [name |-> NatToString(k - 1), value |-> v.items[k]]]
      [] v.type = "string" ->
            [k \in 1..Len(v.s) |->
                [name |-> NatToString(k - 1), value |-> Str(<<v.s[k]>>)]]
      [] OTHER -> <<>>

\* The [name, value] pairs _.forOwn visits.
ForOwnEntries(v) == OwnEntries(v)

\* One attribute without the separating space.
AttributeNoSpace(xml, entry) ==
    IF _escapeString(entry.value).kind = "throw" THEN _escapeString(entry.value)
    ELSE Normal(xml \o entry.name \o <<"=", "\"">>
                    \o JsToString(_escapeString(entry.value).value).value \o <<"\"">>)

\* xml += ` ${name}="${this._escapeString(value)}"`;
Attribute(xml, entry) ==
    IF _escapeString(entry.value).kind = "throw" THEN _escapeString(entry.value)
    ELSE Normal(xml \o <<" ">> \o entry.name \o <<"=", "\"">>
                    \o JsToString(_escapeString(entry.value).value).value \o <<"\"">>)

\* _.forOwn(node.attributes, ...); a throw for one attribute ends the loop.
RECURSIVE AddAttributes(_, _)
AddAttributes(entries, xml) ==
    IF entries = <<>> THEN Normal(xml)
    ELSE IF Attribute(xml, Head(entries)).kind = "throw"
         THEN Attribute(xml, Head(entries))
         ELSE AddAttributes(Tail(entries), Attribute(xml, Head(entries)).value)

\* An emptiness test that also takes an array of empty text for empty.
isEmptyOrBlank(v) ==
    \A k \in 1..Len(OwnEntries(v)) :
        Falsy(OwnEntries(v)[k].value) /\ ~isObject(OwnEntries(v)[k].value)

\* _.isEmpty: an array or a string of length 0, an object without own
\* properties, nil or another primitive.
isEmpty(v) == OwnEntries(v) = <<>>

\* lodash isArrayLike for a plain object: its length property is a
\* non-negative integer.
isArrayLikeObject(v) ==
    /\ v.type = "map"
    /\ Prop(v, <<"l", "e", "n", "g", "t", "h">>).type = "number"
    /\ Prop(v, <<"l", "e", "n", "g", "t", "h">>).n >= 0

\* The elements _.forEach visits: an array's items, a string's characters, the
\* values of an object's own properties; of an array-like object the values at
\* the indices 0 .. length - 1, undefined where it has no such property.
ForEachItems(v) ==
    IF isArrayLikeObject(v)
    THEN [k \in 1..Prop(v, <<"l", "e", "n", "g", "t", "h">>).n |->
             Prop(v, NatToString(k - 1))]
    ELSE [k \in 1..Len(OwnEntries(v)) |-> OwnEntries(v)[k].value]

\* A test that takes only an absent name for missing.
NameMissingOnlyUndefined(v) == v.type = "undefined"

\* !node.name
NameMissing(v) == Falsy(v)

Return(xml, this) == [kind |-> "return", xml |-> xml, this |-> this]
\* throw new Error("XML node does not have name");
Throw(xml, this) ==
    [kind |-> "throw", xml |-> xml, this |-> this, error |-> "Error",
     message |-> MissingNameMessage]
\* A TypeError of the runtime leaves _build.
Raise(e, xml, this) ==
    [kind |-> "throw", xml |-> xml, this |-> this, error |-> e.error,
     message |-> e.message]

RECURSIVE _buildWith(_, _, _, _)
RECURSIVE ForEachChild(_, _, _)

\* _.forEach(node.children, child => { xml = this._build(child, xml); });
\* a throw in one child ends the loop.
ForEachChild(period, items, acc) ==
    IF items = <<>> \/ acc.kind = "throw" THEN acc
    ELSE ForEachChild(period, Tail(items),
                      _buildWith(period, Head(items), acc.xml, acc.this))

\* _build(node, xml) with the flatten period as a parameter.
_buildWith(period, n, xml, this) ==
    LET probed == ProbeWith(period, xml, this)
    IN  IF isObject(n)
        THEN IF NameMissing(NameOf(n))
             THEN Throw(xml, probed)
             ELSE IF JsToString(NameOf(n)).kind = "throw"
             THEN Raise(JsToString(NameOf(n)), xml, probed)
             ELSE LET tag == xml \o <<"<">> \o JsToString(NameOf(n)).value
                      opened == AddAttributes(ForOwnEntries(AttributesOf(n)), tag)
                  IN  IF opened.kind = "throw" THEN Raise(opened, tag, probed)
                      ELSE IF isEmpty(ChildrenOf(n))
                      THEN Return(opened.value \o <<"/", ">">>, probed)
                      ELSE LET kids == ForEachChild(period,
                                           ForEachItems(ChildrenOf(n)),
                                           Return(opened.value \o <<">">>, probed))
                           IN  IF kids.kind = "throw" THEN kids
                               ELSE Return(kids.xml \o <<"<", "/">>
                                               \o JsToString(NameOf(n)).value
                                               \o <<">">>,
                                           kids.this)
        ELSE IF _escapeString(n).kind = "throw"
             THEN Raise(_escapeString(n), xml, probed)
             ELSE Return(xml \o JsToString(_escapeString(n).value).value, probed)

_build(n, xml, this) == _buildWith(FlattenPeriod, n, xml, this)

\* The counter a call without the reset starts from (0 on a fresh instance).
CounterOf(v) == IF v.type = "number" THEN v.n ELSE 0

\* build without the reset of this._i.
buildNoReset(period, n, i, c) ==
    _buildWith(period, n, Decl, [i |-> CounterOf(i), c |-> c, probes |-> <<>>])

\* build(node) on an instance whose fields are i and c.
buildWith(period, n, i, c) ==
    _buildWith(period, n, Decl, [i |-> 0, c |-> c, probes |-> <<>>])

build(n, i, c) == buildWith(FlattenPeriod, n, i, c)

\* What the caller of build gets: the returned string or the thrown error.
Outcome(r) ==
    IF r.kind = "return" THEN [kind |-> "return", value |-> r.xml]
    ELSE [kind |-> "throw", error |-> r.error, message |-> r.message]

(***************************************************************************)
(* Inputs.                                                                 *)
(***************************************************************************)
Alphabet == {"&", "\"", "'", "<", ">", "a"}

RECURSIVE StringsOfLen(_)
StringsOfLen(k) ==
    IF k = 0 THEN {<<>>}
    ELSE {<<ch>> \o s : ch \in Alphabet, s \in StringsOfLen(k - 1)}

Strings == UNION {StringsOfLen(k) : k \in 0..MaxStrLen}

\* Strings that already look like entities.
EntityLike ==
    {AmpEntity, QuotEntity, AposEntity, LtEntity, GtEntity,
     <<"&", "a", "m", "p", ";", "l", "t", ";">>,
     <<"&", "l", "t">>, <<"l", "t", ";">>}

NonStrings == {Null, Undefined, Num(0), Num(-12), Num(305), Bool(TRUE), Bool(FALSE)}

\* The arguments of _escapeString.
Primitives == {Str(s) : s \in Strings \cup EntityLike} \cup NonStrings

\* The roots of build that are no objects: the shorter strings and the rest.
TextRoots ==
    {Str(s) : s \in {t \in Strings : Len(t) < MaxStrLen} \cup EntityLike}
        \cup NonStrings

\* Trees of at most MaxNodes nodes: any shape, few decorations.
ShapeElements ==
    {[name |-> Str(<<"a">>), attributes |-> Undefined],
     [name |-> Str(<<"b">>),
      attributes |-> Map(<<[name |-> <<"x">>, value |-> Str(<<"<">>)]>>)],
     [name |-> Str(<<>>), attributes |-> Undefined]}

ShapeLeaves == {Str(<<"&", "t">>), Null}

RECURSIVE TreesOfSize(_)
RECURSIVE ForestsOfSize(_)
\* The trees of k nodes.
TreesOfSize(k) ==
    IF k = 1
    THEN ShapeLeaves \cup
         {Obj(e.name, e.attributes, ch) :
              e \in ShapeElements, ch \in {Undefined, Arr(<<>>)}}
    ELSE {Obj(e.name, e.attributes, Arr(f)) :
              e \in ShapeElements, f \in ForestsOfSize(k - 1)}

\* The non-empty sequences of trees with k nodes in all.
ForestsOfSize(k) ==
    {<<t>> : t \in TreesOfSize(k)} \cup
    UNION {{<<t>> \o f : t \in TreesOfSize(j), f \in ForestsOfSize(k - j)} :
               j \in 1..(k - 1)}

ShapeTrees == UNION {TreesOfSize(k) : k \in 1..MaxNodes}

\* One element with any name and any attributes, no children.
Names == {Undefined, Null, Str(<<>>), Str(<<"a">>), Str(<<"n", "<">>)}

AttrNames == {<<"x">>, <<"y">>, <<"z", "\"">>}

AttrValues ==
    {Null, Undefined, Str(<<"&", "\"", ">">>), Num(-12)}

RECURSIVE EntriesOfLen(_)
EntriesOfLen(k) ==
    IF k = 0 THEN {<<>>}
    ELSE {Append(es, [name |-> a, value |-> v]) :
              es \in EntriesOfLen(k - 1), a \in AttrNames, v \in AttrValues}

\* An object's keys are distinct.
DistinctKeys(es) ==
    \A j, k \in 1..Len(es) : j # k => es[j].name # es[k].name

AttrMaps ==
    {Undefined, Null} \cup
    {Map(es) : es \in {e \in UNION {EntriesOfLen(k) : k \in 0..MaxAttrs} :
                           DistinctKeys(e)}}

AttrTrees == {Obj(nm, at, Undefined) : nm \in Names, at \in AttrMaps}

\* One element with text children of any kind.
KidValues ==
    {Null, Undefined, Str(<<>>), Str(<<"h", "i", " ", "<", "b", ">">>),
     Str(LtEntity), Num(305), Bool(TRUE)}

RECURSIVE KidsOfLen(_)
KidsOfLen(k) ==
    IF k = 0 THEN {<<>>}
    ELSE {Append(ks, v) : ks \in KidsOfLen(k - 1), v \in KidValues}

TextTrees ==
    {Obj(Str(<<"p">>), Undefined, ch) :
         ch \in {Arr(ks) : ks \in UNION {KidsOfLen(k) : k \in 0..MaxKids}}
                    \cup {Null, Str(<<>>), Str(<<"h", "i">>), Num(5)}}

\* The documented scenarios, and an array as root.
Scenarios ==
    {Obj(Str(<<"r", "o", "o", "t">>), Undefined, Undefined),
     Obj(Str(<<"a">>),
         Map(<<[name |-> <<"x">>, value |-> Str(<<"1", "&", "2">>)]>>), Undefined),
     Obj(Str(<<"p">>), Undefined,
         Arr(<<Str(<<"h", "e", "l", "l", "o", " ", "<", "b", ">">>)>>)),
     Obj(Str(<<"r", "o", "o", "t">>), Undefined,
         Arr(<<Obj(Str(<<"c", "h", "i", "l", "d", "1">>), Undefined, Undefined),
               Obj(Str(<<"c", "h", "i", "l", "d", "2">>), Undefined, Undefined)>>)),
     Arr(<<>>)}

(***************************************************************************)
(* The XmlBuilder instance and its callers.                                *)
(***************************************************************************)
NoResult == [kind |-> "none"]

Init ==
    /\ _i = Undefined
    /\ _c = Undefined
    /\ probes = <<>>
    /\ pc = "idle"
    /\ prior = Undefined
    /\ node = Undefined
    /\ result = NoResult
    /\ value = Undefined
    /\ escaped = Undefined
    /\ original = Undefined
    /\ passes = 0

\* A caller calls build(n) on the instance; the call returns or throws.
Build(n) ==
    /\ pc = "idle"
    /\ LET r == build(n, _i, _c)
       IN  /\ result' = Outcome(r)
           /\ _i' = Num(r.this.i)
           /\ _c' = r.this.c
           /\ probes' = r.this.probes
    /\ node' = n
    /\ prior' = _i
    /\ pc' = "returned"
    /\ UNCHANGED <<value, escaped, original, passes>>

\* The caller drops the outcome; the instance keeps its fields.
Discard ==
    /\ pc = "returned"
    /\ pc' = "idle"
    /\ node' = Undefined
    /\ result' = NoResult
    /\ prior' = Undefined
    /\ UNCHANGED <<_i, _c, probes, value, escaped, original, passes>>

\* Attributes and children of other shapes than a mapping and a sequence.
PermissiveTrees ==
    {Obj(Str(<<"a">>), Str(<<"h", "i">>), Undefined),
     Obj(Str(<<"a">>), Arr(<<Str(<<"v">>), Str(<<"<">>)>>), Undefined),
     Obj(Str(<<"p">>), Obj(Str(<<"c">>), Undefined, Undefined), Undefined),
     Obj(Str(<<"p">>),
         Map(<<[name |-> <<"x">>, value |-> Arr(<<Str(<<"<">>), Null, Num(1)>>)],
               [name |-> <<"y">>, value |-> Map(<<>>)]>>),
         Undefined),
     Obj(Str(<<"p">>), Undefined, Obj(Str(<<"c">>), Undefined, Undefined)),
     Obj(Str(<<"p">>), Undefined, Obj(Str(<<"c">>), Undefined, Arr(<<>>))),
     Obj(Str(<<"p">>), Undefined, Obj(Undefined, Undefined, Undefined)),
     Obj(Str(<<"p">>), Undefined,
         Map(<<[name |-> <<"k">>, value |-> Str(<<"v", "&">>)]>>)),
     Obj(Str(<<"p">>), Undefined, Map(<<>>)),
     \* children is one node object whose attributes own a name
     Obj(Str(<<"p">>), Undefined,
         Obj(Str(<<"c">>), Map(<<[name |-> <<"n", "a", "m", "e">>,
                                  value |-> Str(<<"n">>)]>>), Undefined)),
     \* a child with a further property, and its properties in another order
     Obj(Str(<<"p">>), Undefined,
         Arr(<<Map(<<[name |-> <<"c", "h", "i", "l", "d", "r", "e", "n">>,
                      value |-> Arr(<<Str(<<"t">>)>>)],
                     [name |-> <<"e", "x", "t", "r", "a">>, value |-> Num(1)],
                     [name |-> <<"n", "a", "m", "e">>, value |-> Str(<<"n">>)]>>)>>)),
     \* a name property that is explicitly undefined
     Obj(Str(<<"p">>), Undefined,
         Arr(<<Map(<<[name |-> <<"n", "a", "m", "e">>, value |-> Undefined]>>)>>)),
     \* array-like children
     Obj(Str(<<"p">>), Undefined,
         Map(<<[name |-> <<"l", "e", "n", "g", "t", "h">>, value |-> Num(2)]>>)),
     Obj(Str(<<"p">>), Undefined,
         Map(<<[name |-> <<"l", "e", "n", "g", "t", "h">>, value |-> Num(0)]>>)),
     Obj(Str(<<"p">>), Undefined,
         Map(<<[name |-> <<"a">>, value |-> Str(<<"x">>)],
               [name |-> <<"l", "e", "n", "g", "t", "h">>, value |-> Num(1)]>>)),
     Obj(Str(<<"p">>), Undefined,
         Map(<<[name |-> <<"0">>, value |-> Str(<<"z">>)],
               [name |-> <<"l", "e", "n", "g", "t", "h">>, value |-> Num(2)]>>)),
     \* a length that is not a non-negative integer
     Obj(Str(<<"p">>), Undefined,
         Map(<<[name |-> <<"l", "e", "n", "g", "t", "h">>, value |-> Num(-1)]>>)),
     Obj(Str(<<"p">>), Undefined,
         Map(<<[name |-> <<"l", "e", "n", "g", "t", "h">>, value |-> Str(<<"2">>)]>>))}

\* Names and attribute values that are objects, with and without an own
\* toString; the last two also hold a nameless node.
ToStringKey == <<"t", "o", "S", "t", "r", "i", "n", "g">>
Unconvertible == Map(<<[name |-> ToStringKey, value |-> Str(<<"x">>)]>>)
ObjectValueTrees ==
    {Obj(Str(<<"a">>), Map(<<[name |-> <<"x">>, value |-> Unconvertible]>>), Undefined),
     Obj(Str(<<"a">>),
         Map(<<[name |-> <<"x">>, value |-> Str(<<"<">>)],
               [name |-> <<"y">>,
                value |-> Map(<<[name |-> ToStringKey, value |-> Undefined]>>)]>>),
         Arr(<<Str(<<"t">>)>>)),
     Obj(Str(<<"a">>),
         Map(<<[name |-> <<"x">>, value |-> Arr(<<Num(1), Unconvertible>>)]>>),
         Undefined),
     Obj(Str(<<"a">>),
         Map(<<[name |-> <<"x">>, value |-> Arr(<<Arr(<<Null, Unconvertible>>)>>)]>>),
         Undefined),
     Obj(Str(<<"a">>),
         Map(<<[name |-> <<"x">>,
                value |-> Map(<<[name |-> <<"v", "a", "l", "u", "e", "O", "f">>,
                                 value |-> Num(1)]>>)]>>),
         Undefined),
     Obj(Unconvertible, Undefined, Undefined),
     Obj(Arr(<<Unconvertible>>), Undefined, Undefined),
     Obj(Map(<<[name |-> <<"k">>, value |-> Num(1)]>>), Undefined, Arr(<<Str(<<"t">>)>>)),
     Obj(Arr(<<Str(<<"a">>), Str(<<"b">>)>>), Undefined, Undefined),
     Obj(Str(<<"p">>), Undefined,
         Arr(<<Str(<<"t">>),
               Obj(Str(<<"c">>), Map(<<[name |-> <<"x">>, value |-> Unconvertible]>>),
                   Undefined)>>)),
     Obj(Str(<<"p">>), Map(<<[name |-> <<"x">>, value |-> Unconvertible]>>),
         Arr(<<Obj(Undefined, Undefined, Undefined)>>)),
     Obj(Str(<<"p">>), Undefined,
         Arr(<<Obj(Undefined, Undefined, Undefined),
               Obj(Str(<<"c">>), Map(<<[name |-> <<"x">>, value |-> Unconvertible]>>),
                   Undefined)>>))}

Next ==
    \/ \E n \in ObjectValueTrees : Build(n)
    \/ \E n \in TextRoots : Build(n)
    \/ \E n \in ShapeTrees : Build(n)
    \/ \E n \in AttrTrees : Build(n)
    \/ \E n \in TextTrees : Build(n)
    \/ \E n \in Scenarios : Build(n)
    \/ \E n \in PermissiveTrees : Build(n)
    \/ Discard

Spec == Init /\ [][Next]_vars

\* What the caller of _escapeString gets: the returned value or the thrown
\* TypeError.
Received(r) ==
    IF r.kind = "normal" THEN r.value
    ELSE [type |-> "TypeError", message |-> r.message]

\* _escapeString(v) is called.
Escape ==
    /\ pc = "idle"
    /\ \E v \in Primitives :
          /\ original' = v
          /\ value' = v
          /\ escaped' = Received(_escapeString(v))
    /\ passes' = 1
    /\ pc' = "returned"
    /\ UNCHANGED <<_i, _c, probes, prior, node, result>>

\* _escapeString is called on what it returned.
EscapeAgain ==
    /\ pc = "returned"
    /\ passes \in 1..(MaxPasses - 1)
    /\ value' = escaped
    /\ escaped' = Received(_escapeString(escaped))
    /\ passes' = passes + 1
    /\ UNCHANGED <<_i, _c, probes, prior, pc, node, result, original>>

\* The caller drops the escaped value.
Forget ==
    /\ pc = "returned"
    /\ pc' = "idle"
    /\ value' = Undefined
    /\ escaped' = Undefined
    /\ original' = Undefined
    /\ passes' = 0
    /\ UNCHANGED <<_i, _c, probes, prior, node, result>>

NextEscape == Escape \/ EscapeAgain \/ Forget

SpecEscape == Init /\ [][NextEscape]_vars

(***************************************************************************)
(* Vocabulary of the properties.                                           *)
(***************************************************************************)
Returned == pc = "returned" /\ result.kind = "return"
Threw == pc = "returned" /\ result.kind = "throw"

StartsWith(s, p) == Len(s) >= Len(p) /\ SubSeq(s, 1, Len(p)) = p
EndsWith(s, p) == Len(s) >= Len(p) /\ SubSeq(s, Len(s) - Len(p) + 1, Len(s)) = p
Occurrences(s, p) ==
    Cardinality({k \in 1..(Len(s) - Len(p) + 1) : SubSeq(s, k, k + Len(p) - 1) = p})
Contains(s, p) == \E k \in 1..(Len(s) - Len(p) + 1) : SubSeq(s, k, k + Len(p) - 1) = p

RECURSIVE Sum(_)
Sum(ns) == IF ns = <<>> THEN 0 ELSE Head(ns) + Sum(Tail(ns))

\* The children of a node, in sequence order.
Kids(n) == ForEachItems(ChildrenOf(n))
Attrs(n) == ForOwnEntries(AttributesOf(n))

RECURSIVE Subnodes(_)
Subnodes(n) == {n} \cup UNION {Subnodes(Kids(n)[k]) : k \in 1..Len(Kids(n))}

RECURSIVE NodeCount(_)
NodeCount(n) == 1 + Sum([k \in 1..Len(Kids(n)) |-> NodeCount(Kids(n)[k])])

\* An object node with no non-empty name.
Nameless(n) == isObject(n) /\ NameOf(n) \in {Undefined, Null, Str(<<>>)}

\* The value has a string form: it is a scalar or nil, an array of values
\* that have one, or an object that does not replace toString.
RECURSIVE HasStringForm(_)
HasStringForm(v) ==
    CASE v.type = "array" -> \A k \in 1..Len(v.items) : HasStringForm(v.items[k])
      [] v.type = "map" ->
            \A k \in 1..Len(v.entries) :
                v.entries[k].name # <<"t", "o", "S", "t", "r", "i", "n", "g">>
      [] OTHER -> TRUE

\* Every name and every attribute value of the tree has a string form.
Convertible(n) ==
    \A m \in {x \in Subnodes(n) : isObject(x)} :
        /\ HasStringForm(NameOf(m))
        /\ \A k \in 1..Len(Attrs(m)) : HasStringForm(Attrs(m)[k].value)

\* Every object node has a non-empty name and no attribute value or text is
\* nil; every attribute value has a string form to escape.
WellFormed(n) ==
    \A m \in Subnodes(n) :
        IF isObject(m)
        THEN /\ NameOf(m).type = "string" /\ NameOf(m).s # <<>>
             /\ \A k \in 1..Len(Attrs(m)) :
                    ~isNil(Attrs(m)[k].value) /\ HasStringForm(Attrs(m)[k].value)
        ELSE ~isNil(m)

SpecialChars == {"&", "\"", "'", "<", ">"}
Entities == {AmpEntity, QuotEntity, AposEntity, LtEntity, GtEntity}

EntityOf(ch) ==
    CASE ch = "&" -> AmpEntity
      [] ch = "\"" -> QuotEntity
      [] ch = "'" -> AposEntity
      [] ch = "<" -> LtEntity
      [] ch = ">" -> GtEntity
      [] OTHER -> <<ch>>

\* The string with each of the five characters replaced by its entity.
RECURSIVE CharwiseEscape(_)
CharwiseEscape(s) ==
    IF s = <<>> THEN <<>> ELSE EntityOf(Head(s)) \o CharwiseEscape(Tail(s))

CharOfEntity(e) ==
    CASE e = AmpEntity -> "&"
      [] e = QuotEntity -> "\""
      [] e = AposEntity -> "'"
      [] e = LtEntity -> "<"
      [] e = GtEntity -> ">"

\* XML-unescaping: one pass, left to right, each entity read once.
RECURSIVE XmlUnescape(_)
XmlUnescape(s) ==
    IF s = <<>> THEN <<>>
    ELSE IF \E e \in Entities : StartsWith(s, e)
         THEN LET e == CHOOSE x \in Entities : StartsWith(s, x)
              IN  <<CharOfEntity(e)>> \o XmlUnescape(SubSeq(s, Len(e) + 1, Len(s)))
         ELSE <<Head(s)>> \o XmlUnescape(Tail(s))

HasSpecial(v) ==
    ~isNil(v) /\ \E k \in 1..Len(ToStringMethod(v).value) :
                     ToStringMethod(v).value[k] \in SpecialChars

\* No markup character, and every & begins one of the five entities.
MarkupFree(s) ==
    \A k \in 1..Len(s) :
        /\ s[k] \notin {"<", ">", "\"", "'"}
        /\ s[k] = "&" => \E e \in Entities : StartsWith(SubSeq(s, k, Len(s)), e)

\* The depth-first rendering of a well-formed node.
RECURSIVE RenderAttributes(_)
RenderAttributes(es) ==
    IF es = <<>> THEN <<>>
    ELSE <<" ">> \o Head(es).name \o <<"=", "\"">>
             \o CharwiseEscape(ToStringMethod(Head(es).value).value) \o <<"\"">>
             \o RenderAttributes(Tail(es))

\* The node has no children: the property is absent or an empty sequence.
NoChildren(n) == isNil(ChildrenOf(n)) \/ ChildrenOf(n) = Arr(<<>>)

\* The renderings of a well-formed node: the self-closed form for an element
\* without children, the form with a closing tag for one with a child, and
\* either form where children is a value of another shape that holds no child.
RECURSIVE Renderings(_)
RECURSIVE RenderingsOfEach(_)
RenderingsOfEach(ns) ==
    IF ns = <<>> THEN {<<>>}
    ELSE {h \o t : h \in Renderings(Head(ns)), t \in RenderingsOfEach(Tail(ns))}

Renderings(n) ==
    IF isObject(n)
    THEN LET opening == <<"<">> \o NameOf(n).s \o RenderAttributes(Attrs(n))
             selfClosed == {opening \o <<"/", ">">>}
             closed == {opening \o <<">">> \o body
                            \o <<"<", "/">> \o NameOf(n).s \o <<">">> :
                        body \in RenderingsOfEach(Kids(n))}
         IN  IF NoChildren(n) THEN selfClosed
             ELSE IF Kids(n) # <<>> THEN closed
             ELSE selfClosed \cup closed
    ELSE {CharwiseEscape(ToStringMethod(n).value)}

Rendering(n) == _build(n, <<>>, [i |-> 0, c |-> Undefined, probes |-> <<>>]).xml

SelfClose == <<"/", ">">>
ClosingTag(n) == <<"<", "/">> \o JsToString(NameOf(n)).value \o <<">">>

(***************************************************************************)
(* C2. In a successfully built tree, the rendering of every element node   *)
(* without children ends with "/>" and holds no closing tag; the rendering *)
(* of every element node with at least one child (a nil or empty text      *)
(* child included) opens with <name, ends with </name> and is not          *)
(* self-closed.                                                            *)
(***************************************************************************)
C2_SelfCloseIffNoChildren ==
    Returned =>
        \A n \in {m \in Subnodes(node) : isObject(m)} :
            LET r == Rendering(n)
            IN  /\ Contains(result.value, r)
                /\ StartsWith(r, <<"<">> \o JsToString(NameOf(n)).value)
                /\ NoChildren(n) =>
                       /\ EndsWith(r, SelfClose)
                       /\ Occurrences(r, SelfClose) = 1
                       /\ ~Contains(r, ClosingTag(n))
                /\ Kids(n) # <<>> =>
                       /\ EndsWith(r, ClosingTag(n))
                       /\ ~EndsWith(r, SelfClose)
                       /\ Occurrences(r, SelfClose) =
                              Sum([k \in 1..Len(Kids(n)) |->
                                       Occurrences(Rendering(Kids(n)[k]), SelfClose)])

C2_Witness ==
    /\ Returned
    /\ isObject(node)
    /\ \E k \in 1..Len(Kids(node)) :
           isObject(Kids(node)[k]) /\ NoChildren(Kids(node)[k])
    /\ \E k \in 1..Len(Kids(node)) : Kids(node)[k] = Null

(***************************************************************************)
(* C4. If any object node of the tree has no non-empty name, at any depth  *)
(* and at any position among its siblings, build throws and returns no     *)
(* string: the output accumulated before the offending node does not reach *)
(* the caller. The error is the missing-name Error whenever every name and *)
(* attribute value of the tree has a string form, so that the traversal    *)
(* reaches a nameless node.                                                *)
(***************************************************************************)
C4_NamelessAborts ==
    pc = "returned" /\ (\E n \in Subnodes(node) : Nameless(n))
        => /\ result.kind = "throw"
           /\ DOMAIN result = {"kind", "error", "message"}
           /\ Convertible(node) => result.error = "Error"

\* Thrown by a second child that follows a rendered sibling, and at depth 2.
C4_Witness ==
    /\ Threw
    /\ ~Nameless(node)
    /\ Len(Kids(node)) = 2
    /\ WellFormed(Kids(node)[1])
    /\ Nameless(Kids(node)[2])
    /\ prior # Undefined

\* The tree with the empty string for every nil attribute value and text node.
RECURSIVE NilAsEmpty(_)
NilAsEmpty(n) ==
    IF n.type = "map"
    THEN Map([j \in 1..Len(n.entries) |->
                 [name |-> n.entries[j].name,
                  value |->
                      LET v == n.entries[j].value
                      IN  CASE n.entries[j].name = <<"a", "t", "t", "r", "i", "b", "u", "t", "e", "s">>
                                   /\ v.type = "map" ->
                                 Map([k \in 1..Len(v.entries) |->
                                         [name |-> v.entries[k].name,
                                          value |-> IF isNil(v.entries[k].value)
                                                    THEN Str(<<>>)
                                                    ELSE v.entries[k].value]])
                            [] n.entries[j].name = <<"c", "h", "i", "l", "d", "r", "e", "n">>
                                   /\ v.type = "array" ->
                                 Arr([k \in 1..Len(v.items) |-> NilAsEmpty(v.items[k])])
                            [] OTHER -> v]])
    ELSE IF isNil(n) THEN Str(<<>>) ELSE n

(***************************************************************************)
(* C5. A nil attribute value renders as attrName="" and a nil text node    *)
(* renders as nothing: the document is the one built for the same tree     *)
(* with the empty string in place of every nil attribute value and text.   *)
(***************************************************************************)
C5_NilRendersEmpty ==
    Returned => result = Outcome(build(NilAsEmpty(node), Undefined, Undefined))

(***************************************************************************)
(* C7. build is reusable on one instance: whatever calls came before, the  *)
(* call returns the string or throws the error that build of the same tree *)
(* gives on a fresh instance, and leaves the visit counter where the fresh *)
(* instance leaves it, the counter being set to 0 when the call begins.    *)
(***************************************************************************)
C7_Reusable ==
    pc = "returned" =>
        LET fresh == build(node, Undefined, Undefined)
        IN  /\ result = Outcome(fresh)
            /\ _i = Num(fresh.this.i)

\* A call that returned, on an instance whose earlier call visited more nodes.
C7_Witness ==
    /\ Returned
    /\ isObject(node)
    /\ prior.type = "number"
    /\ prior.n > NodeCount(node)

(***************************************************************************)
(* C8. The error build throws for an object node without a name carries    *)
(* the message "XML node does not have name": every Error that build       *)
(* raises itself has this message, and build raises no other error than    *)
(* this one when every name and attribute value has a string form.         *)
(***************************************************************************)
C8_MessageIsDoesNotHaveName ==
    Threw =>
        /\ result.error = "Error" => result.message = "XML node does not have name"
        /\ Convertible(node) => result.error = "Error"

\* C8 as first stated: the message is "XML node missing name".
C8_MessageIsMissingName ==
    Threw =>
        /\ result.error = "Error" => result.message = "XML node missing name"
        /\ Convertible(node) => result.error = "Error"

C8_Witness ==
    /\ Threw
    /\ Nameless(node)
    /\ NameOf(node) = Str(<<>>)
    /\ result.error = "Error"

\* The multiples of p below n, ascending.
Multiples(p, n) == [j \in 1..((n + p - 1) \div p) |-> (j - 1) * p]

(***************************************************************************)
(* C9. The visit counter increments once per _build call, text leaves      *)
(* included, so that after a successful build it is the number of nodes of *)
(* the tree; the probe fires on exactly the visits whose pre-increment     *)
(* count is a multiple of the period, the first visit included; and the    *)
(* outcome is the same for every period.                                   *)
(***************************************************************************)
C9_CounterAndProbe ==
    pc = "returned" =>
        /\ result.kind = "return" => _i = Num(NodeCount(node))
        /\ probes = Multiples(FlattenPeriod, _i.n)
        /\ _c = Str(<<"<">>)
        /\ \A p \in 1..MaxPeriod :
               LET r == buildWith(p, node, prior, Undefined)
               IN  /\ Outcome(r) = result
                   /\ r.this.i = _i.n
                   /\ r.this.probes = Multiples(p, r.this.i)

C9_Witness ==
    /\ Returned
    /\ _i = Num(MaxNodes)
    /\ \E n \in Subnodes(node) : ~isObject(n)
    /\ probes = <<0>>

\* The attribute values and the text nodes of a tree.
ValuesIn(n) ==
    {m \in Subnodes(n) : ~isObject(m)} \cup
    UNION {{Attrs(m)[k].value : k \in 1..Len(Attrs(m))} :
               m \in {x \in Subnodes(n) : isObject(x)}}

CountChar(s, ch) == Cardinality({k \in 1..Len(s) : s[k] = ch})

\* The occurrences of ch that the templates and the names of a tree emit.
RECURSIVE TemplateCount(_, _)
TemplateCount(n, ch) ==
    IF ~isObject(n) THEN 0
    ELSE LET nm == CountChar(JsToString(NameOf(n)).value, ch)
             tags == IF isEmpty(ChildrenOf(n)) THEN 1 ELSE 2
         IN  (IF ch = "<" \/ ch = ">" THEN tags ELSE 0)
             + (IF isEmpty(ChildrenOf(n)) THEN nm ELSE 2 * nm)
             + Sum([k \in 1..Len(Attrs(n)) |->
                       CountChar(Attrs(n)[k].name, ch) + (IF ch = "\"" THEN 2 ELSE 0)])
             + Sum([k \in 1..Len(Kids(n)) |-> TemplateCount(Kids(n)[k], ch)])

(***************************************************************************)
(* C10. No markup comes from a value: the escaped form of every attribute  *)
(* value and text node holds none of < > " ' and each of its & begins one  *)
(* of the five entities, so the only < > " of a built document are those   *)
(* of the declaration, of the tag and attribute templates and of the       *)
(* names, which are emitted verbatim.                                      *)
(***************************************************************************)
C10_NoMarkupFromValues ==
    pc = "returned" =>
        /\ \A v \in ValuesIn(node) :
               ~isNil(v) /\ HasStringForm(v) => MarkupFree(_escapeString(v).value.s)
        /\ result.kind = "return" =>
               \A ch \in {"<", ">", "\""} :
                   CountChar(result.value, ch)
                       = CountChar(Decl, ch) + TemplateCount(node, ch)

C10_Witness ==
    /\ Returned
    /\ isObject(node)
    /\ \E k \in 1..Len(Attrs(node)) : HasSpecial(Attrs(node)[k].value)
    /\ \E k \in 1..Len(Kids(node)) :
           ~isObject(Kids(node)[k]) /\ HasSpecial(Kids(node)[k])

(***************************************************************************)
(* C3. Round trip of escaping: for a value that is not nil, unescaping     *)
(* _escapeString(v) gives the string form of v; each of the five           *)
(* characters is replaced by its own entity, and the & of an entity that   *)
(* the call inserted is not escaped again within the call.                 *)
(***************************************************************************)
C3_RoundTrip ==
    pc = "returned" /\ passes >= 1 /\ ~isNil(value) =>
        /\ escaped.type = "string"
        /\ XmlUnescape(escaped.s) = ToStringMethod(value).value
        /\ escaped.s = CharwiseEscape(ToStringMethod(value).value)

C3_Witness ==
    /\ pc = "returned"
    /\ passes = 1
    /\ value = Str(<<"<", "&", "\"", "'">>)
    /\ XmlUnescape(escaped.s) = value.s

(***************************************************************************)
(* C6. Running _escapeString on its own result: the second run gives back  *)
(* its argument exactly when the value first escaped holds none of the     *)
(* five characters; otherwise it escapes the & of every entity again and   *)
(* the result is longer.                                                   *)
(***************************************************************************)
C6_SecondRunEscapesAgain ==
    pc = "returned" /\ passes >= 2 =>
        /\ (escaped = value) <=> ~HasSpecial(original)
        /\ HasSpecial(original) => Len(escaped.s) > Len(value.s)

\* C6 as first stated: the second run never escapes again.
C6_SecondRunChangesNothing ==
    pc = "returned" /\ passes = 2 /\ HasSpecial(original) => escaped = value

C6_Witness ==
    /\ pc = "returned"
    /\ passes = 2
    /\ original = Str(<<"<">>)
    /\ value = Str(LtEntity)
    /\ escaped = Str(AmpEntity \o <<"l", "t", ";">>)

====
